---- MODULE Spec2Model ----
(***************************************************************************)
(* Model of the seller-apis synchronisation scripts: seller.py             *)
(* (marketplace A, client-id/API-key API) and market.py (marketplace B,    *)
(* bearer-token API, two campaigns FBS and DBS).                           *)
(*                                                                         *)
(* Strings whose characters matter (raw quantity, raw price) are sequences *)
(* of one-character strings; offer ids are atoms, compared by equality.    *)
(***************************************************************************)
EXTENDS Integers, Sequences, FiniteSets, TLC

VARIABLES
    prog,            \* which script runs: "seller", "market", or a function harness
    entry,           \* the function that was called: "main", "upload_prices", "upload_stocks"
    pc,              \* position in main (or in the harness)
    target,          \* campaign being synchronised: "A", "FBS", "DBS"
    feedSite,        \* the feed served by the supplier's site
    catalog,         \* server side: target -> list of offer ids, in server order
    watch_remnants,  \* main's parsed feed
    page,            \* get_offer_ids: last_id / page token sent with the next request
    product_list,    \* get_offer_ids: accumulated entries
    some_prod,       \* get_offer_ids: last response
    offer_ids,       \* the caller-owned list of offer ids
    stocks,          \* result of create_stocks
    prices,          \* result of create_prices
    queue,           \* list(divide(...)) not yet iterated
    log,             \* every request issued to an update endpoint, with its outcome
    coroutines,      \* coroutine objects created and never awaited
    error,           \* the exception in flight or handled, "none" otherwise
    outcome,         \* "running", "returned" (main returned), "raised" (exception left main)
    printed,         \* what the top-level handler printed
    now,             \* the clock, in seconds
    runs,            \* harness: results of the reconciliation calls made so far
    lst,             \* harness: argument of divide
    n,               \* harness: argument of divide
    chunks           \* harness: list(divide(lst, n))

vars == <<prog, entry, pc, target, feedSite, catalog, watch_remnants, page, product_list,
          some_prod, offer_ids, stocks, prices, queue, log, coroutines, error,
          outcome, printed, now, runs, lst, n, chunks>>

(***************************************************************************)
(* Bounds of the model.  The chunk and page sizes of the scripts (100,     *)
(* 900, 2000, 200, 1000) are scaled down so that lists of a few elements   *)
(* span several chunks and several pages.                                  *)
(***************************************************************************)
MaxFeed == 2          \* records in a feed
MaxCatalog == 2       \* offer ids in a catalog, in the reconciliation harness
MaxLen == 4           \* length of a list given to divide
MaxN == 3             \* chunk size given to divide
MaxRuns == 2          \* calls made by the reconciliation harness
MaxRunCatalog == 3    \* offer ids in a catalog, in the runs of main
MaxFetch == 5         \* entries of a catalog in the get_offer_ids harness
StockChunkA == 2      \* stands for 100, seller.py:436
PriceChunkA == 2      \* stands for 900, seller.py:440
StockChunkB == 2      \* stands for 2000, market.py:348
UploadPriceChunkA == 3 \* stands for 1000, seller.py:394
PriceChunkB == 2      \* stands for 500, market.py:294
StockCapA == 2        \* stands for 100, the most items of a stock request of A
PriceCapA == 3        \* stands for 1000, the most items of a price request of A
StockCapB == 2        \* stands for 2000, the most items of a stock request of B
PriceCapB == 2        \* stands for 500, the most items of a price request of B
MaxUploadFeed == 4    \* records in a feed given to upload_prices / upload_stocks
LimitA == 2           \* stands for 1000, seller.py:58
LimitB == 2           \* stands for 200, market.py:47

ManyStock == 100      \* stock pushed for the raw quantity ">10"

\* the chunk sizes as the scripts write them
StocksPerRequestA == 100           \* seller.main
UploadStocksPerRequestA == 100     \* seller.upload_stocks
PricesPerRequestA == 900           \* seller.main
UploadPricesPerRequestA == 1000    \* seller.upload_prices
StocksPerRequestB == 2000          \* market.main
UploadStocksPerRequestB == 2000    \* market.upload_stocks
UploadPricesPerRequestB == 500     \* market.upload_prices

----------------------------------------------------------------------------
(* Generic sequence helpers (Python list semantics).                       *)

Min(x, y) == IF x < y THEN x ELSE y

\* lst[i:j] with 0-based i, j and Python's clipping of j to len(lst)
SliceInclusive(s, i, j) == SubSeq(s, i + 1, Min(j + 1, Len(s)))
Slice(s, i, j) == SubSeq(s, i + 1, Min(j, Len(s)))

\* x in s
In(x, s) == \E i \in 1..Len(s) : s[i] = x

\* position of the first occurrence of x in s (x must occur)
IndexOf(s, x) == CHOOSE i \in 1..Len(s) : s[i] = x /\ \A j \in 1..(i - 1) : s[j] # x

\* s.remove(x): removes the first occurrence only
Remove(s, x) == SubSeq(s, 1, IndexOf(s, x) - 1) \o SubSeq(s, IndexOf(s, x) + 1, Len(s))

RECURSIVE Flatten(_)
Flatten(ss) == IF ss = <<>> THEN <<>> ELSE Head(ss) \o Flatten(Tail(ss))

IsPrefix(s, t) == Len(s) <= Len(t) /\ SubSeq(t, 1, Len(s)) = s

Count(s, P(_)) == Cardinality({i \in 1..Len(s) : P(s[i])})

SeqsUpTo(S, k) == UNION {[1..m -> S] : m \in 0..k}

----------------------------------------------------------------------------
(* Text conversions.                                                       *)

Digits == <<"0", "1", "2", "3", "4", "5", "6", "7", "8", "9">>
IsDigit(c) == In(c, Digits)
DigitVal(c) == IndexOf(Digits, c) - 1

\* int(text) for a text of decimal digits; anything else raises ValueError
IsInt(s) == s # <<>> /\ \A i \in 1..Len(s) : IsDigit(s[i])

RECURSIVE ParseInt(_)
ParseInt(s) ==
    IF s = <<>> THEN 0
    ELSE 10 * ParseInt(SubSeq(s, 1, Len(s) - 1)) + DigitVal(s[Len(s)])

\* price.split(".")[0]
BeforeDot(s) ==
    IF In(".", s) THEN SubSeq(s, 1, IndexOf(s, ".") - 1) ELSE s

price_conversion(price) == SelectSeq(BeforeDot(price), IsDigit)

----------------------------------------------------------------------------
(* divide(lst, n): the slices lst[i:i+n] for i in range(0, len(lst), n).   *)

RECURSIVE DivideFrom(_, _, _)
DivideFrom(l, k, i) ==
    IF i >= Len(l) THEN <<>>
    ELSE <<Slice(l, i, i + k)>> \o DivideFrom(l, k, i + k)

Divide(l, k) == DivideFrom(l, k, 0)

----------------------------------------------------------------------------
(* Reconciliation.  A feed record is [code, count, price]: str(watch["Код"]) *)
(* as an atom, the raw "Количество" and the raw "Цена" as character lists.  *)
(* Each function returns err = "none" and its list, or the exception it     *)
(* raised; create_stocks also returns offer_ids as it left the caller's     *)
(* list.                                                                    *)

MoreThanTen == <<">", "1", "0">>
One == <<"1">>

\* the if/elif/else on count; the else branch is int(...)
QuantityRaises(count) == count # MoreThanTen /\ count # One /\ ~IsInt(count)

QuantityOneAsIs(count) ==
    IF count = MoreThanTen THEN ManyStock
    ELSE ParseInt(count)

Quantity(count) ==
    IF count = MoreThanTen THEN ManyStock
    ELSE IF count = One THEN 0
    ELSE ParseInt(count)

\* offer_ids.remove(code)
NoConsume(ids, code) == ids
ConsumeAll(ids, code) == SelectSeq(ids, LAMBDA y : y # code)
Consume(ids, code) == Remove(ids, code)

SellerStockStamped(code, stock) == [offer_id |-> code, stock |-> stock, updatedAt |-> now]
SellerStock(code, stock) == [offer_id |-> code, stock |-> stock]

MarketStock(code, warehouse_id, stock, date) ==
    [sku |-> code, warehouseId |-> warehouse_id,
     items |-> <<[count |-> stock, type |-> "FIT", updatedAt |-> date]>>]

RECURSIVE SellerZeroFill(_)
SellerZeroFill(ids) ==
    IF ids = <<>> THEN <<>>
    ELSE <<SellerStock(Head(ids), 0)>> \o SellerZeroFill(Tail(ids))

RECURSIVE SellerStocksLoop(_, _, _)
SellerStocksLoop(feed, ids, acc) ==
    IF feed = <<>>
    THEN [err |-> "none", stocks |-> acc \o SellerZeroFill(ids), offer_ids |-> ids]
    ELSE LET watch == Head(feed) IN
         IF In(watch.code, ids)
         THEN IF QuantityRaises(watch.count)
              THEN [err |-> "ValueError", stocks |-> <<>>, offer_ids |-> ids]
              ELSE SellerStocksLoop(Tail(feed), Consume(ids, watch.code),
                       Append(acc, SellerStock(watch.code, Quantity(watch.count))))
         ELSE SellerStocksLoop(Tail(feed), ids, acc)

SellerCreateStocks(feed, ids) == SellerStocksLoop(feed, ids, <<>>)

RECURSIVE MarketZeroFill(_, _, _)
MarketZeroFill(ids, warehouse_id, date) ==
    IF ids = <<>> THEN <<>>
    ELSE <<MarketStock(Head(ids), warehouse_id, 0, date)>>
         \o MarketZeroFill(Tail(ids), warehouse_id, date)

RECURSIVE MarketStocksLoop(_, _, _, _, _)
MarketStocksLoop(feed, ids, warehouse_id, date, acc) ==
    IF feed = <<>>
    THEN [err |-> "none", stocks |-> acc \o MarketZeroFill(ids, warehouse_id, date),
          offer_ids |-> ids]
    ELSE LET watch == Head(feed) IN
         IF In(watch.code, ids)
         THEN IF QuantityRaises(watch.count)
              THEN [err |-> "ValueError", stocks |-> <<>>, offer_ids |-> ids]
              ELSE MarketStocksLoop(Tail(feed), Consume(ids, watch.code), warehouse_id, date,
                       Append(acc, MarketStock(watch.code, warehouse_id,
                                               Quantity(watch.count), date)))
         ELSE MarketStocksLoop(Tail(feed), ids, warehouse_id, date, acc)

\* date is utcnow() read once, before the loop
MarketCreateStocks(feed, ids, warehouse_id, date) ==
    MarketStocksLoop(feed, ids, warehouse_id, date, <<>>)

SellerPrice(watch) ==
    [auto_action_enabled |-> "UNKNOWN", currency_code |-> "RUB", offer_id |-> watch.code,
     old_price |-> "0", price |-> price_conversion(watch.price)]

\* the records of the feed whose code is in ids, in feed order
Matched(feed, ids) == SelectSeq(feed, LAMBDA watch : In(watch.code, ids))

RECURSIVE SellerPricesOf(_)
SellerPricesOf(feed) ==
    IF feed = <<>> THEN <<>>
    ELSE <<SellerPrice(Head(feed))>> \o SellerPricesOf(Tail(feed))

SellerCreatePrices(feed, ids) ==
    [err |-> "none", prices |-> SellerPricesOf(Matched(feed, ids))]

\* int(price_conversion(...)) raises ValueError on the empty string
MarketPrice(watch) ==
    [id |-> watch.code,
     price |-> [value |-> ParseInt(price_conversion(watch.price)), currencyId |-> "RUR"]]

RECURSIVE MarketPricesOf(_)
MarketPricesOf(feed) ==
    IF feed = <<>> THEN <<>>
    ELSE <<MarketPrice(Head(feed))>> \o MarketPricesOf(Tail(feed))

MarketCreatePrices(feed, ids) ==
    IF \E i \in 1..Len(Matched(feed, ids)) : price_conversion(Matched(feed, ids)[i].price) = <<>>
    THEN [err |-> "ValueError", prices |-> <<>>]
    ELSE [err |-> "none", prices |-> MarketPricesOf(Matched(feed, ids))]

\* the offer id an update record is about, whichever marketplace built it
CodeOf(u) ==
    IF "offer_id" \in DOMAIN u THEN u.offer_id
    ELSE IF "sku" \in DOMAIN u THEN u.sku
    ELSE u.id

\* how many records of list l are about code c
Times(l, c) == Cardinality({i \in 1..Len(l) : CodeOf(l[i]) = c})

NoDup(s) == \A i, j \in 1..Len(s) : s[i] = s[j] => i = j

----------------------------------------------------------------------------
(* Inputs.                                                                 *)

Seven == <<"7">>
Abc == <<"a", "b", "c">>
P59 == <<"5", "'", "9", ".", "0">>     \* price_conversion gives "59"
P12 == <<"1", "2">>
PNone == <<"r", ".", "5">>             \* no digit before the first "."

FeedCodes == {"a", "b"}
CatalogIds == {"a", "c"}

Records ==
    {[code |-> "a", count |-> q, price |-> P59] : q \in {MoreThanTen, One, Abc}}
    \cup {[code |-> "a", count |-> Seven, price |-> p] : p \in {P12, PNone}}
    \cup {[code |-> "b", count |-> Abc, price |-> P59]}

Feeds == SeqsUpTo(Records, MaxFeed)
Catalogs == SeqsUpTo(CatalogIds, MaxCatalog)

TargetsOf(p) == IF p = "seller" THEN <<"A">> ELSE <<"FBS", "DBS">>

\* WAREHOUSE_FBS_ID, WAREHOUSE_DBS_ID
Warehouse(t) == IF t = "FBS" THEN "wh_fbs" ELSE "wh_dbs"

\* str(utcnow().replace(microsecond=0).isoformat() + "Z"): the clock, in whole seconds
Date == now

NoResponse == [items |-> <<>>, token |-> 0, total |-> 0, any |-> FALSE]

----------------------------------------------------------------------------
(* Harness for divide: one call on a drawn list and chunk size.            *)

InitDivide ==
    /\ prog = "divide" /\ pc = "call" /\ target = "A"
    /\ feedSite = <<>> /\ catalog = <<>> /\ watch_remnants = <<>>
    /\ page = 0 /\ product_list = <<>> /\ some_prod = NoResponse
    /\ offer_ids = <<>> /\ stocks = <<>> /\ prices = <<>> /\ queue = <<>>
    /\ entry = "main"
    /\ log = <<>> /\ coroutines = <<>> /\ error = "none" /\ outcome = "running"
    /\ printed = <<>> /\ now = 0 /\ runs = <<>>
    /\ lst \in SeqsUpTo({"x", "y"}, MaxLen)
    /\ n \in 1..MaxN
    /\ chunks = <<>>

CallDivide ==
    /\ prog = "divide" /\ pc = "call"
    /\ chunks' = Divide(lst, n)
    /\ pc' = "returned"
    /\ UNCHANGED <<prog, entry, target, feedSite, catalog, watch_remnants, page, product_list,
                   some_prod, offer_ids, stocks, prices, queue, log, coroutines, error,
                   outcome, printed, now, runs, lst, n>>

NextDivide == CallDivide

SpecDivide == InitDivide /\ [][NextDivide]_vars

----------------------------------------------------------------------------
(* Harness for the reconciliation functions: a caller holds a feed and a   *)
(* list offer_ids copied from a catalog snapshot, and calls create_stocks  *)
(* and create_prices of one script on them, in any order; it may take a    *)
(* fresh copy of the snapshot between calls, and time passes.              *)

InitRecon ==
    /\ prog \in {"seller", "market"} /\ pc = "recon"
    /\ target = TargetsOf(prog)[1]
    /\ feedSite \in Feeds
    /\ catalog \in [{target} -> Catalogs]
    /\ watch_remnants = feedSite
    /\ page = 0 /\ product_list = <<>> /\ some_prod = NoResponse
    /\ offer_ids = catalog[target]
    /\ stocks = <<>> /\ prices = <<>> /\ queue = <<>>
    /\ entry = "main"
    /\ log = <<>> /\ coroutines = <<>> /\ error = "none" /\ outcome = "running"
    /\ printed = <<>> /\ now = 0 /\ runs = <<>>
    /\ lst = <<>> /\ n = 1 /\ chunks = <<>>

CreateStocksOf(p, feed, ids, t) ==
    IF p = "seller" THEN SellerCreateStocks(feed, ids)
    ELSE MarketCreateStocks(feed, ids, Warehouse(t), Date)

CreatePricesOf(p, feed, ids) ==
    IF p = "seller" THEN SellerCreatePrices(feed, ids)
    ELSE MarketCreatePrices(feed, ids)

ReconStocks ==
    /\ pc = "recon" /\ Len(runs) < MaxRuns
    /\ LET r == CreateStocksOf(prog, watch_remnants, offer_ids, target) IN
        /\ runs' = Append(runs, [fn |-> "create_stocks", ids |-> offer_ids,
                                 err |-> r.err, out |-> r.stocks, left |-> r.offer_ids])
        /\ offer_ids' = r.offer_ids
        /\ stocks' = r.stocks
    /\ UNCHANGED <<prog, entry, pc, target, feedSite, catalog, watch_remnants, page, product_list,
                   some_prod, prices, queue, log, coroutines, error, outcome, printed,
                   now, lst, n, chunks>>

ReconPrices ==
    /\ pc = "recon" /\ Len(runs) < MaxRuns
    /\ LET r == CreatePricesOf(prog, watch_remnants, offer_ids) IN
        /\ runs' = Append(runs, [fn |-> "create_prices", ids |-> offer_ids,
                                 err |-> r.err, out |-> r.prices, left |-> offer_ids])
        /\ prices' = r.prices
    /\ UNCHANGED <<prog, entry, pc, target, feedSite, catalog, watch_remnants, page, product_list,
                   some_prod, offer_ids, stocks, queue, log, coroutines, error, outcome,
                   printed, now, lst, n, chunks>>

\* offer_ids = list(snapshot)
ReconCopy ==
    /\ pc = "recon" /\ offer_ids # catalog[target]
    /\ offer_ids' = catalog[target]
    /\ UNCHANGED <<prog, entry, pc, target, feedSite, catalog, watch_remnants, page, product_list,
                   some_prod, stocks, prices, queue, log, coroutines, error, outcome,
                   printed, now, runs, lst, n, chunks>>

\* a second passes between two calls
Tick ==
    /\ pc = "recon" /\ now < Len(runs) /\ Len(runs) < MaxRuns
    /\ now' = now + 1
    /\ UNCHANGED <<prog, entry, pc, target, feedSite, catalog, watch_remnants, page, product_list,
                   some_prod, offer_ids, stocks, prices, queue, log, coroutines, error,
                   outcome, printed, runs, lst, n, chunks>>

NextRecon == ReconStocks \/ ReconPrices \/ ReconCopy \/ Tick

SpecRecon == InitRecon /\ [][NextRecon]_vars

----------------------------------------------------------------------------
(* The marketplace servers.  A page token is the number of entries already *)
(* served; 0 stands for the empty string and for an absent token.          *)

\* seller.get_product_list: items after last_id, at most "limit" of them; last_id of
\* the response identifies the last value of the page; total counts all products
ResponseA(cat, last_id) ==
    LET items == Slice(cat, last_id, last_id + LimitA) IN
    [items |-> items, token |-> last_id + Len(items), total |-> Len(cat), any |-> TRUE]

\* market.get_product_list: offerMappingEntries after page_token; paging.nextPageToken
\* is present only when more entries follow; the response has no total (-1)
ResponseB(cat, page_token) ==
    LET items == Slice(cat, page_token, page_token + LimitB) IN
    [items |-> items,
     token |-> IF page_token + Len(items) < Len(cat) THEN page_token + Len(items) ELSE 0,
     total |-> -1, any |-> TRUE]

\* seller.get_offer_ids: if total == len(product_list): break
StopByToken(resp, list) == resp.token = 0
StopA(resp, list) == resp.total = Len(list)

\* market.get_offer_ids: if not page: break
StopB(resp, list) == resp.token = 0

----------------------------------------------------------------------------
(* main of seller.py and of market.py.                                     *)

NetErrors == {"ReadTimeout", "ConnectionError", "HTTPError"}

RunRecords ==
    {[code |-> "a", count |-> Seven, price |-> P59],
     [code |-> "a", count |-> Abc, price |-> P59],
     [code |-> "b", count |-> MoreThanTen, price |-> P12]}

RunFeeds == SeqsUpTo(RunRecords, MaxFeed)
RunCatalogs == SeqsUpTo(CatalogIds, MaxRunCatalog)

\* order of the statements of main
FirstPc(p) == IF p = "seller" THEN "get_offer_ids" ELSE "download"
AfterDownload(p) == IF p = "seller" THEN "create_stocks" ELSE "get_offer_ids"
AfterFetch(p) == IF p = "seller" THEN "download" ELSE "create_stocks"
AfterStocks(p) == IF p = "seller" THEN "create_prices" ELSE "upload_prices"

StockChunkOver(p) == IF p = "seller" THEN StockChunkA + 1 ELSE StockChunkB + 1
StockChunk(p) == IF p = "seller" THEN StockChunkA ELSE StockChunkB

\* divide(prices, 1000) of seller.upload_prices, divide(prices, 500) of market.upload_prices
UploadPriceChunk(p) == IF p = "seller" THEN UploadPriceChunkA ELSE PriceChunkB

\* the statement after offer_ids = get_offer_ids(...), in main and in the upload functions
AfterFetchIn(e, p) ==
    IF e = "upload_prices" THEN "upload_create_prices"
    ELSE IF e = "upload_stocks" THEN "upload_create_stocks"
    ELSE AfterFetch(p)

\* where an exception raised at a statement of main goes: to the except clauses of
\* the try statement, or out of main
OnRaiseRetry(p, at) ==
    IF p = "market" /\ at = "download" THEN "raised"
    ELSE IF at \in {"push_stocks", "push_prices"} THEN at ELSE "except"
OnRaise(p, at) == IF p = "market" /\ at = "download" THEN "raised" ELSE "except"

\* the upload functions have no try statement: an exception leaves them
OnRaiseIn(e, p, at) == IF e = "main" THEN OnRaise(p, at) ELSE "raised"

\* the statement after the except clause that handled the exception
AfterExceptNextTarget(p, t) ==
    IF t = "FBS" THEN [pc |-> "get_offer_ids", target |-> "DBS"]
    ELSE [pc |-> "end", target |-> t]
AfterExcept(p, t) == [pc |-> "end", target |-> t]

\* the except clauses
Message(e) ==
    IF e = "ReadTimeout" THEN "timeout"
    ELSE IF e = "ConnectionError" THEN "connection error"
    ELSE "ERROR_2"

Init ==
    /\ prog \in {"seller", "market"}
    /\ pc = FirstPc(prog)
    /\ target = TargetsOf(prog)[1]
    /\ feedSite \in RunFeeds
    /\ catalog \in [{TargetsOf(prog)[i] : i \in 1..Len(TargetsOf(prog))} -> RunCatalogs]
    /\ watch_remnants = <<>>
    /\ page = 0 /\ product_list = <<>> /\ some_prod = NoResponse
    /\ offer_ids = <<>> /\ stocks = <<>> /\ prices = <<>> /\ queue = <<>>
    /\ entry = "main"
    /\ log = <<>> /\ coroutines = <<>> /\ error = "none" /\ outcome = "running"
    /\ printed = <<>> /\ now = 0 /\ runs = <<>>
    /\ lst = <<>> /\ n = 1 /\ chunks = <<>>

Raise(e) ==
    /\ error' = e
    /\ IF OnRaiseIn(entry, prog, pc) = "raised"
       THEN pc' = "done" /\ outcome' = "raised"
       ELSE pc' = OnRaiseIn(entry, prog, pc) /\ outcome' = outcome

Running == prog \in {"seller", "market"} /\ outcome = "running"

DownloadStock ==
    /\ Running /\ pc = "download"
    /\ \/ /\ watch_remnants' = feedSite
          /\ pc' = AfterDownload(prog)
          /\ UNCHANGED <<error, outcome>>
       \/ /\ \E e \in NetErrors : Raise(e)
          /\ UNCHANGED watch_remnants
    /\ UNCHANGED <<prog, entry, target, feedSite, catalog, page, product_list, some_prod,
                   offer_ids, stocks, prices, queue, log, coroutines, printed, now,
                   runs, lst, n, chunks>>

\* get_offer_ids is entered: last_id / page = "", product_list = []
CallGetOfferIds ==
    /\ Running /\ pc = "get_offer_ids"
    /\ page' = 0 /\ product_list' = <<>> /\ some_prod' = NoResponse
    /\ pc' = "fetch"
    /\ UNCHANGED <<prog, entry, target, feedSite, catalog, watch_remnants, offer_ids, stocks,
                   prices, queue, log, coroutines, error, outcome, printed, now, runs,
                   lst, n, chunks>>

\* one iteration of the while loop of get_offer_ids: the request is answered
GetProductListOk ==
    /\ Running /\ pc = "fetch"
    /\ LET resp == IF prog = "seller" THEN ResponseA(catalog[target], page)
                   ELSE ResponseB(catalog[target], page)
           list == product_list \o resp.items
           stop == IF prog = "seller" THEN StopA(resp, list) ELSE StopB(resp, list)
       IN /\ some_prod' = resp
          /\ product_list' = list
          /\ page' = resp.token
          /\ IF stop
             THEN offer_ids' = list /\ pc' = AfterFetchIn(entry, prog)
             ELSE offer_ids' = offer_ids /\ pc' = "fetch"
    /\ UNCHANGED <<prog, entry, target, feedSite, catalog, watch_remnants, stocks, prices,
                   queue, log, coroutines, error, outcome, printed, now, runs, lst, n,
                   chunks>>

\* the request fails: requests raises, or raise_for_status does
GetProductListFails ==
    /\ Running /\ pc = "fetch"
    /\ \E e \in NetErrors : Raise(e)
    /\ UNCHANGED <<prog, entry, target, feedSite, catalog, watch_remnants, page, product_list,
                   some_prod, offer_ids, stocks, prices, queue, log, coroutines, printed,
                   now, runs, lst, n, chunks>>

GetProductList == GetProductListOk \/ GetProductListFails

\* stocks = create_stocks(...) and list(divide(stocks, ...))
CreateStocks ==
    /\ Running /\ pc = "create_stocks"
    /\ LET r == CreateStocksOf(prog, watch_remnants, offer_ids, target) IN
        /\ offer_ids' = r.offer_ids
        /\ IF r.err = "none"
           THEN /\ stocks' = r.stocks
                /\ queue' = Divide(r.stocks, StockChunk(prog))
                /\ pc' = IF r.stocks = <<>> THEN AfterStocks(prog) ELSE "push_stocks"
                /\ UNCHANGED <<error, outcome>>
           ELSE /\ Raise(r.err)
                /\ UNCHANGED <<stocks, queue>>
    /\ UNCHANGED <<prog, entry, target, feedSite, catalog, watch_remnants, page, product_list,
                   some_prod, prices, log, coroutines, printed, now, runs, lst, n, chunks>>

\* one iteration of "for some_stock in ...: update_stocks(some_stock, ...)"
UpdateStocks ==
    /\ Running /\ pc = "push_stocks" /\ queue # <<>>
    /\ \/ /\ log' = Append(log, [kind |-> "stocks", target |-> target,
                                 items |-> Head(queue), ok |-> TRUE])
          /\ queue' = Tail(queue)
          /\ pc' = IF Tail(queue) = <<>> THEN AfterStocks(prog) ELSE pc
          /\ UNCHANGED <<error, outcome>>
       \/ /\ log' = Append(log, [kind |-> "stocks", target |-> target,
                                 items |-> Head(queue), ok |-> FALSE])
          /\ \E e \in NetErrors : Raise(e)
          /\ UNCHANGED queue
    /\ UNCHANGED <<prog, entry, target, feedSite, catalog, watch_remnants, page, product_list,
                   some_prod, offer_ids, stocks, prices, coroutines, printed, now, runs,
                   lst, n, chunks>>

\* seller.main: prices = create_prices(watch_remnants, offer_ids) and list(divide(prices, 900))
CreatePrices ==
    /\ Running /\ prog = "seller" /\ pc = "create_prices"
    /\ LET r == SellerCreatePrices(watch_remnants, offer_ids) IN
        /\ prices' = r.prices
        /\ queue' = Divide(r.prices, PriceChunkA)
        /\ pc' = IF r.prices = <<>> THEN "end" ELSE "push_prices"
    /\ UNCHANGED <<prog, entry, target, feedSite, catalog, watch_remnants, page, product_list,
                   some_prod, offer_ids, stocks, log, coroutines, error, outcome, printed,
                   now, runs, lst, n, chunks>>

\* one iteration of "for some_price in ...: update_price(some_price, ...)"
UpdatePrice ==
    /\ Running /\ pc = "push_prices" /\ queue # <<>>
    /\ \/ /\ log' = Append(log, [kind |-> "prices", target |-> target,
                                 items |-> Head(queue), ok |-> TRUE])
          /\ queue' = Tail(queue)
          /\ pc' = IF Tail(queue) = <<>> THEN "end" ELSE pc
          /\ UNCHANGED <<error, outcome>>
       \/ /\ log' = Append(log, [kind |-> "prices", target |-> target,
                                 items |-> Head(queue), ok |-> FALSE])
          /\ \E e \in NetErrors : Raise(e)
          /\ UNCHANGED queue
    /\ UNCHANGED <<prog, entry, target, feedSite, catalog, watch_remnants, page, product_list,
                   some_prod, offer_ids, stocks, prices, coroutines, printed, now, runs,
                   lst, n, chunks>>

\* market.main: upload_prices(watch_remnants, campaign_id, market_token).  upload_prices
\* is an "async def": the call builds a coroutine object and runs none of its body;
\* main never awaits it.
UploadPrices ==
    /\ Running /\ prog = "market" /\ pc = "upload_prices"
    /\ coroutines' = Append(coroutines, target)
    /\ IF target = "FBS"
       THEN target' = "DBS" /\ pc' = "get_offer_ids"
       ELSE target' = target /\ pc' = "end"
    /\ UNCHANGED <<prog, entry, feedSite, catalog, watch_remnants, page, product_list, some_prod,
                   offer_ids, stocks, prices, queue, log, error, outcome, printed, now,
                   runs, lst, n, chunks>>

\* except ReadTimeout / ConnectionError / Exception: print
Except ==
    /\ Running /\ pc = "except"
    /\ printed' = Append(printed, Message(error))
    /\ pc' = AfterExcept(prog, target).pc
    /\ target' = AfterExcept(prog, target).target
    /\ UNCHANGED <<prog, entry, feedSite, catalog, watch_remnants, page, product_list, some_prod,
                   offer_ids, stocks, prices, queue, log, coroutines, error, outcome, now,
                   runs, lst, n, chunks>>

\* main returns; an upload function returns
Return ==
    /\ Running /\ pc = "end"
    /\ pc' = "done" /\ outcome' = "returned"
    /\ UNCHANGED <<prog, entry, target, feedSite, catalog, watch_remnants, page, product_list,
                   some_prod, offer_ids, stocks, prices, queue, log, coroutines, error,
                   printed, now, runs, lst, n, chunks>>

Next ==
    \/ DownloadStock \/ CallGetOfferIds \/ GetProductList \/ CreateStocks \/ UpdateStocks
    \/ CreatePrices \/ UpdatePrice \/ UploadPrices \/ Except \/ Return

Spec == Init /\ [][Next]_vars

----------------------------------------------------------------------------
(* upload_prices and upload_stocks of both scripts, called and awaited with *)
(* a parsed feed.                                                          *)

UploadRecords ==
    {[code |-> "a", count |-> Seven, price |-> P59],
     [code |-> "a", count |-> Abc, price |-> PNone]}

UploadFeeds == SeqsUpTo(UploadRecords, MaxUploadFeed)

InitUpload ==
    /\ prog \in {"seller", "market"}
    /\ entry \in {"upload_prices", "upload_stocks"}
    /\ pc = "get_offer_ids"
    /\ target = TargetsOf(prog)[1]
    /\ feedSite \in UploadFeeds
    /\ catalog \in [{target} -> RunCatalogs]
    /\ watch_remnants = feedSite
    /\ page = 0 /\ product_list = <<>> /\ some_prod = NoResponse
    /\ offer_ids = <<>> /\ stocks = <<>> /\ prices = <<>> /\ queue = <<>>
    /\ log = <<>> /\ coroutines = <<>> /\ error = "none" /\ outcome = "running"
    /\ printed = <<>> /\ now = 0 /\ runs = <<>>
    /\ lst = <<>> /\ n = 1 /\ chunks = <<>>

\* prices = create_prices(watch_remnants, offer_ids) and list(divide(prices, ...))
UploadCreatePrices ==
    /\ Running /\ entry = "upload_prices" /\ pc = "upload_create_prices"
    /\ LET r == CreatePricesOf(prog, watch_remnants, offer_ids) IN
        IF r.err = "none"
        THEN /\ prices' = r.prices
             /\ queue' = Divide(r.prices, UploadPriceChunk(prog))
             /\ pc' = IF r.prices = <<>> THEN "end" ELSE "upload_push_prices"
             /\ UNCHANGED <<error, outcome>>
        ELSE /\ Raise(r.err)
             /\ UNCHANGED <<prices, queue>>
    /\ UNCHANGED <<prog, entry, target, feedSite, catalog, watch_remnants, page,
                   product_list, some_prod, offer_ids, stocks, log, coroutines,
                   printed, now, runs, lst, n, chunks>>

\* one iteration of "for some_price in ...: update_price(some_price, ...)"
UploadUpdatePrice ==
    /\ Running /\ pc = "upload_push_prices" /\ queue # <<>>
    /\ \/ /\ log' = Append(log, [kind |-> "prices", target |-> target,
                                 items |-> Head(queue), ok |-> TRUE])
          /\ queue' = Tail(queue)
          /\ pc' = IF Tail(queue) = <<>> THEN "end" ELSE pc
          /\ UNCHANGED <<error, outcome>>
       \/ /\ log' = Append(log, [kind |-> "prices", target |-> target,
                                 items |-> Head(queue), ok |-> FALSE])
          /\ \E e \in NetErrors : Raise(e)
          /\ UNCHANGED queue
    /\ UNCHANGED <<prog, entry, target, feedSite, catalog, watch_remnants, page,
                   product_list, some_prod, offer_ids, stocks, prices, coroutines,
                   printed, now, runs, lst, n, chunks>>

\* stocks = create_stocks(watch_remnants, offer_ids[, warehouse_id]) and
\* list(divide(stocks, ...))
UploadCreateStocks ==
    /\ Running /\ entry = "upload_stocks" /\ pc = "upload_create_stocks"
    /\ LET r == CreateStocksOf(prog, watch_remnants, offer_ids, target) IN
        /\ offer_ids' = r.offer_ids
        /\ IF r.err = "none"
           THEN /\ stocks' = r.stocks
                /\ queue' = Divide(r.stocks, StockChunk(prog))
                /\ pc' = IF r.stocks = <<>> THEN "end" ELSE "upload_push_stocks"
                /\ UNCHANGED <<error, outcome>>
           ELSE /\ Raise(r.err)
                /\ UNCHANGED <<stocks, queue>>
    /\ UNCHANGED <<prog, entry, target, feedSite, catalog, watch_remnants, page,
                   product_list, some_prod, prices, log, coroutines, printed, now,
                   runs, lst, n, chunks>>

\* one iteration of "for some_stock in ...: update_stocks(some_stock, ...)"
UploadUpdateStocks ==
    /\ Running /\ pc = "upload_push_stocks" /\ queue # <<>>
    /\ \/ /\ log' = Append(log, [kind |-> "stocks", target |-> target,
                                 items |-> Head(queue), ok |-> TRUE])
          /\ queue' = Tail(queue)
          /\ pc' = IF Tail(queue) = <<>> THEN "end" ELSE pc
          /\ UNCHANGED <<error, outcome>>
       \/ /\ log' = Append(log, [kind |-> "stocks", target |-> target,
                                 items |-> Head(queue), ok |-> FALSE])
          /\ \E e \in NetErrors : Raise(e)
          /\ UNCHANGED queue
    /\ UNCHANGED <<prog, entry, target, feedSite, catalog, watch_remnants, page,
                   product_list, some_prod, offer_ids, stocks, prices, coroutines,
                   printed, now, runs, lst, n, chunks>>

\* every way the scripts reach an update endpoint: main, upload_prices, upload_stocks
InitAll == Init \/ InitUpload

NextAll ==
    \/ Next
    \/ UploadCreatePrices \/ UploadUpdatePrice \/ UploadCreateStocks \/ UploadUpdateStocks

SpecAll == InitAll /\ [][NextAll]_vars

----------------------------------------------------------------------------
(* Harness for get_offer_ids: one call against a server holding a catalog  *)
(* of up to MaxFetch entries.  A request that the server answers returns,  *)
(* so the answered iteration is weakly fair.                               *)

InitFetch ==
    /\ prog \in {"seller", "market"}
    /\ pc = "get_offer_ids"
    /\ target = TargetsOf(prog)[1]
    /\ feedSite = <<>>
    /\ catalog \in [{target} -> SeqsUpTo(CatalogIds, MaxFetch)]
    /\ watch_remnants = <<>>
    /\ page = 0 /\ product_list = <<>> /\ some_prod = NoResponse
    /\ offer_ids = <<>> /\ stocks = <<>> /\ prices = <<>> /\ queue = <<>>
    /\ entry = "main"
    /\ log = <<>> /\ coroutines = <<>> /\ error = "none" /\ outcome = "running"
    /\ printed = <<>> /\ now = 0 /\ runs = <<>>
    /\ lst = <<>> /\ n = 1 /\ chunks = <<>>

NextFetch == CallGetOfferIds \/ GetProductList

SpecFetch == InitFetch /\ [][NextFetch]_vars /\ WF_vars(GetProductListOk)

----------------------------------------------------------------------------
(* Properties of divide (SpecDivide).                                      *)

\* C8: divide(lst, n) yields ceil(len(lst)/n) chunks, every chunk but the last has
\* exactly n elements, the last has between 1 and n, and the chunks concatenated in
\* order give lst back.
C8_DivideChunks ==
    (prog = "divide" /\ pc = "returned") =>
        /\ Len(chunks) = (Len(lst) + n - 1) \div n
        /\ \A i \in 1..(Len(chunks) - 1) : Len(chunks[i]) = n
        /\ chunks # <<>> => Len(chunks[Len(chunks)]) \in 1..n
        /\ Flatten(chunks) = lst

C8_Witness ==
    /\ prog = "divide" /\ pc = "returned"
    /\ Len(chunks) >= 2
    /\ Len(chunks[Len(chunks)]) < n

----------------------------------------------------------------------------
(* Properties of the reconciliation functions (SpecRecon).                 *)

StockOf(u) == IF "stock" \in DOMAIN u THEN u.stock ELSE u.items[1].count

StockRuns == {i \in 1..Len(runs) : runs[i].fn = "create_stocks" /\ runs[i].err = "none"}
PriceRuns == {i \in 1..Len(runs) : runs[i].fn = "create_prices" /\ runs[i].err = "none"}

FeedHas(c) == \E k \in 1..Len(watch_remnants) : watch_remnants[k].code = c

\* the StockUpdate u is the one of a feed record with code c, or a zero-filled one
MatchedOrZero(u, c) ==
    IF FeedHas(c)
    THEN \E k \in 1..Len(watch_remnants) :
            /\ watch_remnants[k].code = c
            /\ StockOf(u) = Quantity(watch_remnants[k].count)
    ELSE StockOf(u) = 0

\* C3 as stated: for any list of offer ids, the stock list has exactly one StockUpdate
\* for every offer id of the list.
C3_AnyCatalog ==
    \A i \in StockRuns : \A k \in 1..Len(runs[i].ids) :
        Times(runs[i].out, runs[i].ids[k]) = 1

\* C3 amended: for a list of offer ids without repetition, the stock list has exactly
\* one StockUpdate for every offer id of the list, matched to a feed record or
\* zero-filled, and no StockUpdate for anything else.
C3_OnePerOfferId ==
    \A i \in StockRuns :
        NoDup(runs[i].ids) =>
            /\ \A k \in 1..Len(runs[i].ids) : Times(runs[i].out, runs[i].ids[k]) = 1
            /\ \A k \in 1..Len(runs[i].out) :
                  /\ In(CodeOf(runs[i].out[k]), runs[i].ids)
                  /\ MatchedOrZero(runs[i].out[k], CodeOf(runs[i].out[k]))

C3_Witness ==
    \E i \in StockRuns :
        /\ NoDup(runs[i].ids)
        /\ \E c \in FeedCodes : In(c, runs[i].ids) /\ FeedHas(c)
        /\ In("c", runs[i].ids)
        /\ Len(runs[i].out) = Len(runs[i].ids)

\* C4: when the feed has several records with one code and the code is in offer_ids
\* (a list without repetition), the output of create_stocks and of create_prices has
\* at most one update for that code.
C4_AtMostOnce ==
    \A i \in StockRuns \cup PriceRuns :
        NoDup(runs[i].ids) =>
            \A c \in FeedCodes :
                (In(c, runs[i].ids) /\ Count(watch_remnants, LAMBDA w : w.code = c) >= 2)
                    => Times(runs[i].out, c) <= 1

\* updatedAt set aside
Unstamped(u) == IF "items" \in DOMAIN u THEN [u EXCEPT !.items[1].updatedAt = 0] ELSE u

RECURSIVE UnstampedAll(_)
UnstampedAll(l) ==
    IF l = <<>> THEN <<>> ELSE <<Unstamped(Head(l))>> \o UnstampedAll(Tail(l))

SameInput(i, j) ==
    /\ runs[i].fn = runs[j].fn
    /\ runs[i].ids = catalog[target]
    /\ runs[j].ids = catalog[target]

----------------------------------------------------------------------------
(* Properties of get_offer_ids (SpecFetch).                                *)

Fetched == pc = AfterFetch(prog)

\* C9 as stated: the loop of marketplace A (seller.py) stops at a response without
\* continuation token, the loop of marketplace B (market.py) at a response after
\* which the accumulated count equals the total the server reported.
C9_StopAsStated ==
    Fetched =>
        IF prog = "seller" THEN some_prod.token = 0
        ELSE some_prod.total = Len(product_list)

\* the loop goes on exactly while its own criterion is false: marketplace A compares
\* the accumulated count with the reported total, marketplace B looks for a token
C9_Stop ==
    /\ (pc = "fetch" /\ some_prod.any) =>
          /\ IF prog = "seller" THEN some_prod.total # Len(product_list)
             ELSE some_prod.token # 0
          /\ IsPrefix(product_list, catalog[target])
          /\ Len(product_list) < Len(catalog[target])
    /\ Fetched =>
          /\ IF prog = "seller" THEN some_prod.total = Len(product_list)
             ELSE some_prod.token = 0
          /\ offer_ids = catalog[target]

\* C9 amended: every catalog fetch ends (returns, or raises the error of a failed
\* request); a fetch that returns has stopped at the first response that meets the
\* criterion of its marketplace (A: count equals total, B: no token) and returns all
\* entries of the catalog in server order.
C9_FetchTerminates == [](pc = "fetch" => <>(pc # "fetch")) /\ []C9_Stop

C9_Witness ==
    /\ Fetched
    /\ Len(offer_ids) > LimitA
    /\ Len(offer_ids) > LimitB
    /\ ~IsPrefix(offer_ids, <<"a", "a", "a", "a", "a", "a">>)

----------------------------------------------------------------------------
(* Properties of the two main functions (Spec).                            *)

\* the updates of one kind that the endpoint of campaign t accepted, in order
RECURSIVE PushedIn(_, _, _)
PushedIn(l, t, kind) ==
    IF l = <<>> THEN <<>>
    ELSE (IF Head(l).target = t /\ Head(l).kind = kind /\ Head(l).ok
          THEN Head(l).items ELSE <<>>) \o PushedIn(Tail(l), t, kind)

Pushed(t, kind) == PushedIn(log, t, kind)

\* the chunks requested from the endpoint of campaign t, accepted or not, in order
Requested(t, kind) ==
    LET sel == SelectSeq(log, LAMBDA r : r.target = t /\ r.kind = kind)
    IN [i \in 1..Len(sel) |-> sel[i].items]

Completed == outcome = "returned" /\ error = "none"

FeedCodeList == [i \in 1..Len(feedSite) |-> feedSite[i].code]

\* C1: after a run of seller.main without error, on a feed and a catalog without
\* repeated codes, every feed record whose code is in the catalog has exactly one
\* StockUpdate among the pushed stocks and exactly one PriceUpdate among the pushed
\* prices.
C1_OneStockOnePrice ==
    (prog = "seller" /\ Completed /\ NoDup(FeedCodeList) /\ NoDup(catalog["A"])) =>
        \A i \in 1..Len(feedSite) :
            In(feedSite[i].code, catalog["A"]) =>
                /\ Times(Pushed("A", "stocks"), feedSite[i].code) = 1
                /\ Times(Pushed("A", "prices"), feedSite[i].code) = 1

\* C2: after a run of market.main in which nothing failed, every PriceUpdate of each
\* campaign (create_prices on the feed and the campaign's catalog) has been submitted
\* to the price endpoint of that campaign.
C2_PricesPushed ==
    (prog = "market" /\ Completed) =>
        \A t \in {"FBS", "DBS"} :
            Pushed(t, "prices") = MarketCreatePrices(feedSite, catalog[t]).prices

\* C5: no exception leaves main; an error of any stage is printed by the handler.
C5_NoEscape ==
    /\ outcome # "raised"
    /\ (pc = "done" /\ error # "none") => printed # <<>>

\* C6 as stated: when main of market.py has returned, the DBS campaign has run,
\* whether the FBS campaign completed or failed.
C6_NextTargetRuns ==
    (prog = "market" /\ outcome = "returned") => target = "DBS"

\* C6 amended: a failure ends the whole run: after it no request is issued and no
\* other campaign starts; what was pushed stays pushed; DBS starts only after FBS
\* pushed all its stock chunks.
C6_FailureEndsRun ==
    [][/\ IsPrefix(log, log')
       /\ error # "none" => (log' = log /\ target' = target)
       /\ (prog = "market" /\ target = "FBS" /\ target' = "DBS") =>
             /\ error = "none"
             /\ UnstampedAll(Pushed("FBS", "stocks")') =
                  UnstampedAll(MarketCreateStocks(feedSite, catalog["FBS"],
                                                  Warehouse("FBS"), Date).stocks)
      ]_vars

C6_Witness ==
    /\ prog = "market" /\ outcome = "returned" /\ error # "none"
    /\ target = "FBS"
    /\ Len(log) >= 2
    /\ log[1].ok /\ ~log[Len(log)].ok

\* C7: the chunks of a list are requested one at a time and in list order; a failed
\* request is the last one of the run: the chunks before it stay submitted, it is
\* not repeated, and nothing is requested after it.
C7_InOrder ==
    /\ IsPrefix(Requested(target, "stocks"), Divide(stocks, StockChunk(prog)))
    /\ IsPrefix(Requested(target, "prices"), Divide(prices, PriceChunkA))
    /\ \A i \in 1..(Len(log) - 1) : log[i].ok

C7_ChunkByChunk ==
    [][/\ log' = log \/ (Len(log') = Len(log) + 1 /\ IsPrefix(log, log'))
       /\ error # "none" => log' = log
       /\ C7_InOrder /\ C7_InOrder'
      ]_vars

C7_Witness ==
    /\ outcome = "returned" /\ error # "none"
    /\ Len(log) >= 2
    /\ log[1].ok /\ ~log[Len(log)].ok
    /\ Len(log[1].items) = StockChunk(prog)

----------------------------------------------------------------------------
(* Properties of the normalisations (SpecRecon).                           *)

\* the digits of a text up to its first ".", read character by character
RECURSIVE DigitsBeforeDot(_)
DigitsBeforeDot(s) ==
    IF s = <<>> \/ Head(s) = "." THEN <<>>
    ELSE (IF IsDigit(Head(s)) THEN <<Head(s)>> ELSE <<>>) \o DigitsBeforeDot(Tail(s))

AllPriceRuns == {i \in 1..Len(runs) : runs[i].fn = "create_prices"}

\* the price a PriceUpdate carries is the text d (marketplace A) or its value
\* (marketplace B)
CarriesPrice(u, d) ==
    IF "offer_id" \in DOMAIN u THEN u.price = d
    ELSE u.price.value = ParseInt(d)

\* C11: in create_prices of both marketplaces, the price of a matched feed record is
\* normalised to the digits of its text before the first ".", in their order; when
\* that text has no digit, create_prices fails with a parse error and produces no
\* PriceUpdate.
C11_PriceOrParseError ==
    \A i \in AllPriceRuns :
        LET matched == Matched(watch_remnants, runs[i].ids) IN
        /\ (\E k \in 1..Len(matched) : DigitsBeforeDot(matched[k].price) = <<>>)
              => runs[i].err = "ValueError"
        /\ runs[i].err = "none" =>
              /\ Len(runs[i].out) = Len(matched)
              /\ \A k \in 1..Len(matched) :
                    CarriesPrice(runs[i].out[k], DigitsBeforeDot(matched[k].price))

AllStockRuns == {i \in 1..Len(runs) : runs[i].fn = "create_stocks"}

NonNumeric(count) == count # <<">", "1", "0">> /\ count # <<"1">> /\ ~IsInt(count)

\* the quantity stated for a numeric raw quantity
StatedQuantity(count) ==
    IF count = <<">", "1", "0">> THEN ManyStock
    ELSE IF count = <<"1">> THEN 0
    ELSE ParseInt(count)

Occurrences(ids, c) == Count(ids, LAMBDA y : y = c)

\* record k of the feed finds its code still in the list ids: fewer earlier records
\* have the code than the list has occurrences of it
Live(ids, k) ==
    Count(SubSeq(watch_remnants, 1, k - 1), LAMBDA w : w.code = watch_remnants[k].code)
        < Occurrences(ids, watch_remnants[k].code)

LiveIdx(ids) ==
    SelectSeq([k \in 1..Len(watch_remnants) |-> k], LAMBDA k : Live(ids, k))

\* C12 as stated: every feed record whose code is in the catalog gets the quantity 100
\* for ">10", 0 for "1" and the parsed integer otherwise, and makes create_stocks fail
\* when its quantity is not numeric; a record whose code is not in the catalog is not
\* parsed and gets no StockUpdate.
C12_EveryCatalogRecord ==
    \A i \in AllStockRuns : \A k \in 1..Len(watch_remnants) :
        LET w == watch_remnants[k] IN
        IF In(w.code, runs[i].ids)
        THEN /\ NonNumeric(w.count) => runs[i].err = "ValueError"
             /\ (runs[i].err = "none") =>
                    \E j \in 1..Len(runs[i].out) :
                        /\ CodeOf(runs[i].out[j]) = w.code
                        /\ StockOf(runs[i].out[j]) = StatedQuantity(w.count)
        ELSE runs[i].err = "none" => Times(runs[i].out, w.code) = 0

\* C12 amended: the rule holds for every feed record whose code is still in offer_ids
\* when the loop reaches it. create_stocks fails with a parse error exactly when such
\* a record has a non-numeric quantity; otherwise the StockUpdates of these records
\* come first, in feed order, with 100 for ">10", 0 for "1" and the parsed integer
\* otherwise. A record whose code is not in the catalog, or is used up by earlier
\* records, is not parsed: it raises nothing and gets no StockUpdate of its own.
C12_EveryLiveRecord ==
    \A i \in AllStockRuns :
        LET ids == runs[i].ids
            live == LiveIdx(ids)
        IN
        /\ (runs[i].err = "ValueError") <=>
               \E k \in 1..Len(watch_remnants) :
                   Live(ids, k) /\ NonNumeric(watch_remnants[k].count)
        /\ runs[i].err \in {"none", "ValueError"}
        /\ runs[i].err = "none" =>
               /\ Len(runs[i].out) >= Len(live)
               /\ \A j \in 1..Len(live) :
                     /\ CodeOf(runs[i].out[j]) = watch_remnants[live[j]].code
                     /\ StockOf(runs[i].out[j]) = StatedQuantity(watch_remnants[live[j]].count)
               /\ \A j \in (Len(live) + 1)..Len(runs[i].out) : StockOf(runs[i].out[j]) = 0
               /\ \A k \in 1..Len(watch_remnants) :
                     ~In(watch_remnants[k].code, ids)
                         => Times(runs[i].out, watch_remnants[k].code) = 0

\* a run without error where ">10" gave 100, next to a record with a non-numeric
\* quantity that was not parsed
C12_Witness ==
    \E i \in AllStockRuns :
        /\ runs[i].err = "none"
        /\ \E j \in 1..Len(runs[i].out) : StockOf(runs[i].out[j]) = ManyStock
        /\ \E k \in 1..Len(watch_remnants) :
              ~Live(runs[i].ids, k) /\ NonNumeric(watch_remnants[k].count)

\* the feed records create_stocks got through in run i: the live ones, up to the
\* first whose quantity raises
Processed(i) ==
    {k \in 1..Len(watch_remnants) :
        /\ Live(runs[i].ids, k)
        /\ \A h \in 1..k : Live(runs[i].ids, h) => ~NonNumeric(watch_remnants[h].count)}

\* position p of ids survives when more occurrences of its id come before it than
\* the processed records proc have that code
Survives(ids, proc, p) ==
    Count(SubSeq(ids, 1, p - 1), LAMBDA y : y = ids[p])
        >= Cardinality({k \in proc : watch_remnants[k].code = ids[p]})

\* C14: reconciliation leaves the parsed feed as it was downloaded, so every call
\* works on the same records; create_stocks takes out of offer_ids one occurrence
\* (the first) per matched feed record and changes nothing else of it, and
\* create_prices leaves offer_ids as it found it.
C14_OnlyOfferIdsChange ==
    /\ watch_remnants = feedSite
    /\ \A i \in AllStockRuns :
          LET ids == runs[i].ids
              proc == Processed(i)
              kept == SelectSeq([p \in 1..Len(ids) |-> p],
                                LAMBDA p : Survives(ids, proc, p))
          IN
          /\ runs[i].left = [j \in 1..Len(kept) |-> ids[kept[j]]]
          /\ Len(runs[i].left) = Len(ids) - Cardinality(proc)
    /\ \A i \in AllPriceRuns : runs[i].left = runs[i].ids

\* create_stocks took one of two equal offer ids, and with the same feed create_prices
\* then left the list alone
C14_Witness ==
    /\ Len(runs) = 2
    /\ runs[1].fn = "create_stocks" /\ runs[2].fn = "create_prices"
    /\ Occurrences(runs[1].ids, "a") = 2 /\ Occurrences(runs[1].left, "a") = 1
    /\ runs[2].out # <<>>
    /\ runs[2].left = runs[2].ids /\ offer_ids = runs[2].ids

----------------------------------------------------------------------------
(* Properties of the requests (SpecAll).                                   *)

\* the most items a request to an update endpoint may carry
Cap(p, kind) ==
    IF p = "seller" THEN (IF kind = "stocks" THEN StockCapA ELSE PriceCapA)
    ELSE (IF kind = "stocks" THEN StockCapB ELSE PriceCapB)

\* C13: every request to an update endpoint, sent by main or by an upload function,
\* carries at least one item and at most the cap of its endpoint (100 stocks and 1000
\* prices for marketplace A, 2000 stocks and 500 prices for marketplace B), and no
\* request is sent for an empty list of updates.
C13_RequestSizes ==
    /\ StocksPerRequestA <= 100 /\ UploadStocksPerRequestA <= 100
    /\ PricesPerRequestA <= 1000 /\ UploadPricesPerRequestA <= 1000
    /\ StocksPerRequestB <= 2000 /\ UploadStocksPerRequestB <= 2000
    /\ UploadPricesPerRequestB <= 500
    /\ \A k \in 1..Len(log) :
          /\ Len(log[k].items) >= 1
          /\ Len(log[k].items) <= Cap(prog, log[k].kind)
          /\ (log[k].target = target /\ log[k].kind = "stocks") => stocks # <<>>
          /\ (log[k].target = target /\ log[k].kind = "prices") => prices # <<>>
    /\ (stocks = <<>> /\ prices = <<>>) => queue = <<>>

\* upload_prices of marketplace B sent a full request and then the one price left
C13_Witness ==
    /\ prog = "market" /\ entry = "upload_prices" /\ outcome = "returned"
    /\ Len(log) = 2
    /\ Len(log[1].items) = PriceCapB
    /\ Len(log[2].items) = 1

====
